---- MODULE Spec2Model ----
(***************************************************************************)
(* Event versioning, conflict detection and time travel of the NeoFi       *)
(* event-management backend (app/routers/events.py, app/routers/           *)
(* versions.py, app/utils/versioning.py, app/utils/conflicts.py).          *)
(*                                                                         *)
(* The state is the content of the tables events, event_versions and       *)
(* event_changes as a NEW request sees it, plus the last response.  Each   *)
(* action is one whole request: the handler, and the end of the request's  *)
(* database session.                                                       *)
(***************************************************************************)
EXTENDS Integers, Sequences, FiniteSets, TLC

\* ------------------------------------------------------------------ bounds
MaxEvents == 2      \* events.id values handed out: 1..MaxEvents
MaxTime == 2        \* start/end instants sent by clients: 0..MaxTime
MaxClock == 1       \* readings of the server clock: 0..MaxClock
MaxVersions == 3    \* event_versions rows per event
MaxCount == 2       \* COUNT of a recurrence rule: 1..MaxCount
MaxWeeks == 2       \* listing windows end at most MaxWeeks weeks after instant 0

\* --------------------------------------------------------------- value sets
\* Optional[T]: None is the empty tuple, a value v is <<v>>.
None == <<>>
Some(v) == <<v>>
Optional(S) == {None} \cup {Some(v) : v \in S}

Users == {1, 2}
Titles == {"A", "B"}
Descriptions == Optional({"d"})
Times == 0..MaxTime

\* Instants are counted in ticks of half a second, so that an instant can
\* have a part below the second (datetime keeps microseconds).
Second == 2
Day == 86400 * Second
Week == 7 * Day

\* The text of a recurrence rule, "FREQ=WEEKLY;COUNT=2", as its parts.
\* "WEAKLY" stands for a text that dateutil does not parse.
RuleTexts ==
    [FREQ : {"WEEKLY"}, COUNT : Optional(1..MaxCount)]
        \cup {[FREQ |-> "WEAKLY", COUNT |-> None]}
Rules == Optional(RuleTexts)
RecurrenceEnds == Optional({Week})
EventIds == 1..MaxEvents

VARIABLES
    events,         \* table events: id -> row, for the ids that exist
    versions,       \* table event_versions: a set of rows
    changes,        \* table event_changes: a set of rows
    next_event_id,  \* the next value of the events.id sequence
    now,            \* the server clock (datetime.utcnow(), func.now())
    wiring,         \* how get_db hands sessions to requests
    response,       \* the last request and its response
    log,            \* per live event: how it was made, what was accepted since
    inflight        \* per session: the request it is serving, step by step

vars == <<events, versions, changes, next_event_id, now, wiring, response, log,
          inflight>>

\* ------------------------------------------------------------ Snapshot codec
\* datetime.isoformat() and dateutil.parser.isoparse(): the text form of an
\* instant, and the instant of a text form.
isoformat(t) == [iso |-> t]

\* A parser that reads the instant one tick late.
isoparse_late(s) == s.iso + 1

isoparse(s) == s.iso

\* versioning.py:27-38, the field map stored in EventVersion.snapshot.
new_snapshot(event) ==
    [title |-> event.title,
     description |-> event.description,
     start_datetime |-> isoformat(event.start_datetime),
     end_datetime |-> isoformat(event.end_datetime),
     creator_id |-> event.creator_id,
     created_at |-> isoformat(event.updated_at)]

SnapshotKeys == {"title", "description", "start_datetime", "end_datetime",
                 "creator_id", "created_at"}

\* ------------------------------------------------------------ Version store
VersionsOf(vs, event_id) == {v \in vs : v.event_id = event_id}

\* versioning.py:17-23: ORDER BY version_number DESC LIMIT 1, None if no row.
last_version(vs, event_id) ==
    LET mine == VersionsOf(vs, event_id)
    IN IF mine = {} THEN None
       ELSE Some(CHOOSE v \in mine : \A w \in mine : w.version_number <= v.version_number)

\* versioning.py:24
next_version_number(vs, event_id) ==
    LET last == last_version(vs, event_id)
    IN IF last = None THEN 1 ELSE last[1].version_number + 1

\* versioning.py:41-47, the row added to the session.
version_row(vs, event, user_id, t) ==
    [event_id |-> event.id,
     version_number |-> next_version_number(vs, event.id),
     snapshot |-> new_snapshot(event),
     created_at |-> t,
     created_by_id |-> user_id]

\* str(): the text of a value, as stored in the Text columns old_value and
\* new_value (models.py:186-187).
str(v) == [str |-> v]

\* versioning.py:63-64: str(val) if val is not None else None.  Of the
\* snapshot's values only description can be None.
value_text(key, val) ==
    IF key = "description"
    THEN (IF val = None THEN None ELSE Some(str(val[1])))
    ELSE Some(str(val))

\* versioning.py:52-69, one EventChange per key whose value differs from the
\* previous snapshot; none when there is no previous version.
change_rows_every_key(vs, row, t) ==
    LET last == last_version(vs, row.event_id)
    IN IF last = None THEN {}
       ELSE {[event_id |-> row.event_id,
              version_number |-> row.version_number,
              field_name |-> key,
              old_value |-> value_text(key, last[1].snapshot[key]),
              new_value |-> value_text(key, row.snapshot[key]),
              changed_at |-> t] : key \in SnapshotKeys}

change_rows(vs, row, t) ==
    LET last == last_version(vs, row.event_id)
    IN IF last = None THEN {}
       ELSE {[event_id |-> row.event_id,
              version_number |-> row.version_number,
              field_name |-> key,
              old_value |-> value_text(key, last[1].snapshot[key]),
              new_value |-> value_text(key, row.snapshot[key]),
              changed_at |-> t] :
                key \in {k \in SnapshotKeys : last[1].snapshot[k] # row.snapshot[k]}}

\* The flush of versioning.py:49 raises when the database refuses the INSERT:
\* created_by_id is not an integer (models.py:157), (event_id,
\* version_number) is taken (models.py:168), or the statement fails.
flush_fails_unconstrained(vs, row, db_fault) ==
    \/ db_fault
    \/ row.created_by_id \notin Users

flush_fails(vs, row, db_fault) ==
    \/ db_fault
    \/ row.created_by_id \notin Users
    \/ \E v \in vs : /\ v.event_id = row.event_id
                     /\ v.version_number = row.version_number

\* versioning.py:11-72: what the session holds after record_event_version.
\* Nothing is committed here: the rows are flushed, "so caller can commit".
record_event_version_overwrite(db, event, user_id, t, db_fault) ==
    LET row == version_row(db.versions, event, user_id, t)
        kept == {v \in db.versions : v.event_id # event.id}
    IN IF flush_fails(kept, row, db_fault)
       THEN [ok |-> FALSE, db |-> db, row |-> row]
       ELSE [ok |-> TRUE,
             db |-> [db EXCEPT !.versions = kept \cup {row}],
             row |-> row]

record_event_version(db, event, user_id, t, db_fault) ==
    LET row == version_row(db.versions, event, user_id, t)
    IN IF flush_fails(db.versions, row, db_fault)
       THEN [ok |-> FALSE, db |-> db, row |-> row]
       ELSE [ok |-> TRUE,
             db |-> [db EXCEPT !.versions = @ \cup {row},
                               !.changes = @ \cup change_rows(db.versions, row, t)],
             row |-> row]

\* ------------------------------------------------------------------ session
\* db/session.py:31-33: get_db opens one AsyncSession per request and closes
\* it when the request ends; closing commits nothing, so rows flushed after
\* the last commit are rolled back.  tests/conftest.py:37-44 overrides get_db
\* with one session shared by every request of a test: rows flushed by one
\* request stay in that session and are seen by the next.
PerRequest == "get_db"
Shared == "override_get_db"

\* The tables the next request sees, given what the handler committed and
\* what its session holds at the end.
session_end(committed, held) ==
    IF wiring = PerRequest THEN committed ELSE held

DB == [events |-> events, versions |-> versions, changes |-> changes]

Install(db) ==
    /\ events' = db.events
    /\ versions' = db.versions
    /\ changes' = db.changes

Reply(op, status, args, ret) ==
    response' = [op |-> op, status |-> status, args |-> args, ret |-> ret]

\* models.py:108-141, table event_permissions.  The sharing endpoints
\* (routers/permissions.py) are not part of this model: the table stays as
\* created, empty.
event_permissions == {}

\* ---------------------------------------------------------- Conflict detector
\* conflicts.py:41: "if exclude_event_id:" is false for None and for 0.
truthy(exclude_event_id) == exclude_event_id # None /\ exclude_event_id[1] # 0

\* conflicts.py:27-39, the WHERE clause on one row of events.
conflict_where_closed(e, start, end, user_id) ==
    /\ e.creator_id = user_id
    /\ \/ (e.start_datetime <= start /\ e.end_datetime >= start)
       \/ (e.start_datetime < end /\ e.end_datetime >= end)
       \/ (e.start_datetime >= start /\ e.end_datetime <= end)

conflict_where(e, start, end, user_id) ==
    /\ e.creator_id = user_id
    /\ \/ (e.start_datetime <= start /\ e.end_datetime > start)
       \/ (e.start_datetime < end /\ e.end_datetime >= end)
       \/ (e.start_datetime >= start /\ e.end_datetime <= end)

\* conflicts.py:9-45: the rows returned, for the table evs.
detect_event_conflicts(evs, start, end, user_id, exclude_event_id) ==
    {evs[i] : i \in {j \in DOMAIN evs :
        /\ conflict_where(evs[j], start, end, user_id)
        /\ (truthy(exclude_event_id) => evs[j].id # exclude_event_id[1])}}

\* A call of detect_event_conflicts on the current table.  No router calls
\* it: create_event and update_event (events.py:29-55, 252-300) do not.
detect_call(start, end, user_id, exclude_event_id) ==
    /\ Reply("detect_event_conflicts", 0,
             [start |-> start, end |-> end, user_id |-> user_id,
              exclude_event_id |-> exclude_event_id],
             detect_event_conflicts(events, start, end, user_id, exclude_event_id))
    /\ UNCHANGED <<events, versions, changes, next_event_id, now, wiring, log, inflight>>

DetectEventConflicts ==
    \E start \in Times, end \in Times, u \in Users, x \in Optional(0..MaxEvents) :
        /\ start < end
        /\ detect_call(start, end, u, x)

\* Candidates of one second, this week and in the weeks that follow.
DetectInLaterWeeks ==
    \E w \in 0..MaxWeeks, u \in Users, x \in Optional(0..MaxEvents) :
        detect_call(w * Week, w * Week + Second, u, x)

\* -------------------------------------------------------------- create_event
\* schemas.py:48-59, the body of POST /api/events.
EventCreate ==
    [title : Titles, description : Descriptions,
     start_datetime : Times, end_datetime : Times,
     recurrence_rule : Rules, recurrence_end : RecurrenceEnds]

\* events.py:39-47 and models.py:69-77: the row as INSERTed and refreshed.
new_event(event_in, creator_id, id, t) ==
    [id |-> id,
     title |-> event_in.title,
     description |-> event_in.description,
     start_datetime |-> event_in.start_datetime,
     end_datetime |-> event_in.end_datetime,
     creator_id |-> creator_id,
     version_number |-> 1,
     updated_at |-> t,
     recurrence_rule |-> event_in.recurrence_rule,
     recurrence_end |-> event_in.recurrence_end]

NewLog(op) == [made_by |-> op, updates |-> 0, rollbacks |-> 0, seen |-> 0]

\* events.py:29-55.  The event is committed (line 49) before its first
\* version is recorded (line 53); nothing commits after that.
create_event(event_in, current_user, db_fault) ==
    LET ev == new_event(event_in, current_user, next_event_id, now)
        committed == [DB EXCEPT !.events = (next_event_id :> ev) @@ @]
        rec == record_event_version(committed, ev, current_user, now, db_fault)
    IN /\ next_event_id <= MaxEvents
       /\ next_event_id' = next_event_id + 1
       /\ Install(session_end(committed, rec.db))
       /\ Reply("create_event", IF rec.ok THEN 201 ELSE 500,
                [event_in |-> event_in, current_user |-> current_user],
                next_event_id)
       /\ log' = (next_event_id :> NewLog("create_event")) @@ log
       /\ UNCHANGED <<now, wiring, inflight>>

\* ------------------------------------------------------- batch_create_events
\* events.py:343-349: the row of one item.  recurrence_rule and
\* recurrence_end of the item are not passed on.
new_batch_event(item, creator_id, id, t) ==
    [new_event(item, creator_id, id, t) EXCEPT !.recurrence_rule = None,
                                               !.recurrence_end = None]

\* events.py:326-366.  No version is recorded for the events of a batch.
batch_create_events(batch_in, current_user, db_fault) ==
    LET n == Len(batch_in)
        ids == [i \in 1..n |-> next_event_id + i - 1]
        new_events == [id \in {ids[i] : i \in 1..n} |->
                          new_batch_event(batch_in[id - next_event_id + 1],
                                          current_user, id, now)]
    IN /\ next_event_id + n - 1 <= MaxEvents
       /\ UNCHANGED <<versions, changes, now, wiring, inflight>>
       /\ IF \E i \in 1..n : batch_in[i].end_datetime <= batch_in[i].start_datetime
          THEN /\ Reply("batch_create_events", 400, [n |-> n],
                        "end_datetime must be after start_datetime in all events")
               /\ UNCHANGED <<events, next_event_id, log>>
          ELSE IF db_fault
          THEN /\ Reply("batch_create_events", 400, [n |-> n], "Batch insert failed")
               /\ UNCHANGED <<events, next_event_id, log>>
          ELSE /\ events' = new_events @@ events
               /\ next_event_id' = next_event_id + n
               /\ log' = [id \in DOMAIN new_events |-> NewLog("batch_create_events")] @@ log
               /\ Reply("batch_create_events", 201, [n |-> n], ids)

\* ---------------------------------------------------------------- list_events
\* dateutil.rrule keeps the recurrence start without its microseconds:
\* dtstart.replace(microsecond=0).
replace_microsecond_0(t) == t - (t % Second)

\* The period of the frequencies dateutil knows, of those used here.
FreqPeriod == [DAILY |-> Day, WEEKLY |-> Week]

\* events.py:177, rrulestr(ev.recurrence_rule, dtstart=ev.start_datetime):
\* the rule, or None where dateutil raises ValueError.
rrulestr(text, dtstart) ==
    IF text.FREQ \in DOMAIN FreqPeriod
    THEN Some([dtstart |-> replace_microsecond_0(dtstart),
               interval |-> FreqPeriod[text.FREQ],
               count |-> text.COUNT])
    ELSE None

Min(a, b) == IF a <= b THEN a ELSE b

\* The occurrences of a rule up to and including before, in order: dtstart,
\* dtstart + interval, ..., at most count of them.
rrule_upto(rule, before) ==
    LET in_window == IF before < rule.dtstart THEN 0
                     ELSE ((before - rule.dtstart) \div rule.interval) + 1
        n == IF rule.count = None THEN in_window ELSE Min(in_window, rule.count[1])
    IN [k \in 1..n |-> rule.dtstart + (k - 1) * rule.interval]

\* events.py:185-189, rule.between(start_from, start_to, inc=True).
between(rule, after, before) ==
    LET at_or_after(x) == x >= after
    IN SelectSeq(rrule_upto(rule, before), at_or_after)

\* schemas.py:61-67
EventReadFields ==
    {"id", "creator_id", "title", "description", "start_datetime", "end_datetime",
     "recurrence_rule", "recurrence_end", "version_number", "updated_at"}

EventRead(ev) == [f \in EventReadFields |-> ev[f]]

\* events.py:127-134, 150-157: the events a user can list.
can_list(event, user_id) ==
    \/ event.creator_id = user_id
    \/ \E p \in event_permissions : p.event_id = event.id /\ p.user_id = user_id

\* The rows of a SELECT without ORDER BY, taken in primary-key order.
RECURSIVE rows_in_id_order(_, _)
rows_in_id_order(evs, ids) ==
    IF ids = {} THEN <<>>
    ELSE LET first == CHOOSE i \in ids : \A j \in ids : i <= j
         IN <<evs[first]>> \o rows_in_id_order(evs, ids \ {first})

\* events.py:191-210: the occurrences of one master.
occurrences(ev, starts) ==
    [k \in 1..Len(starts) |->
        [EventRead(ev) EXCEPT
            !.start_datetime = starts[k],
            !.end_datetime = starts[k] + (ev.end_datetime - ev.start_datetime)]]

\* An expansion that gives up at the first rule that does not parse.
RECURSIVE expanded_occurrences_stop_at_bad(_, _, _)
expanded_occurrences_stop_at_bad(masters, start_from, start_to) ==
    IF masters = <<>> THEN <<>>
    ELSE LET ev == Head(masters)
             rule == rrulestr(ev.recurrence_rule[1], ev.start_datetime)
         IN IF rule = None THEN <<>>
            ELSE occurrences(ev, between(rule[1], start_from, start_to))
                   \o expanded_occurrences_stop_at_bad(Tail(masters),
                                                       start_from, start_to)

\* events.py:168-210: the masters in turn; a rule that does not parse is
\* skipped.
RECURSIVE expanded_occurrences(_, _, _)
expanded_occurrences(masters, start_from, start_to) ==
    IF masters = <<>> THEN <<>>
    ELSE LET ev == Head(masters)
             rule == rrulestr(ev.recurrence_rule[1], ev.start_datetime)
             mine == IF rule = None THEN <<>>
                     ELSE occurrences(ev, between(rule[1], start_from, start_to))
         IN mine \o expanded_occurrences(Tail(masters), start_from, start_to)

\* events.py:221, list.sort(key=start_datetime): a stable sort.
RECURSIVE sort_by_start(_)
sort_by_start(seq) ==
    IF seq = <<>> THEN <<>>
    ELSE LET last == seq[Len(seq)]
             sorted == sort_by_start(SubSeq(seq, 1, Len(seq) - 1))
             not_after(e) == e.start_datetime <= last.start_datetime
             after(e) == e.start_datetime > last.start_datetime
         IN SelectSeq(sorted, not_after) \o <<last>> \o SelectSeq(sorted, after)

\* events.py:105, ORDER BY updated_at DESC, on rows in primary-key order.
RECURSIVE sort_by_updated_desc(_)
sort_by_updated_desc(seq) ==
    IF seq = <<>> THEN <<>>
    ELSE LET last == seq[Len(seq)]
             sorted == sort_by_updated_desc(SubSeq(seq, 1, Len(seq) - 1))
             not_before(e) == e.updated_at >= last.updated_at
             before(e) == e.updated_at < last.updated_at
         IN SelectSeq(sorted, not_before) \o <<last>> \o SelectSeq(sorted, before)

\* events.py:62-63, the defaults of skip and limit.
DefaultSkip == 0
DefaultLimit == 20

\* seq[skip : skip + limit]
slice(seq, skip, limit) == SubSeq(seq, skip + 1, Min(Len(seq), skip + limit))

\* events.py:60-225
list_events(skip, limit, start_from, start_to, changed_since, current_user) ==
    LET args == [start_from |-> start_from, start_to |-> start_to,
                 changed_since |-> changed_since, current_user |-> current_user]
        changed == {id \in DOMAIN events :
                       /\ \E v \in versions : /\ v.event_id = id
                                              /\ v.created_at > changed_since[1]
                       /\ can_list(events[id], current_user)}
        one_off == {id \in DOMAIN events :
                       /\ events[id].recurrence_rule = None
                       /\ events[id].start_datetime >= start_from[1]
                       /\ events[id].start_datetime <= start_to[1]
                       /\ can_list(events[id], current_user)}
        recurring == {id \in DOMAIN events :
                       /\ events[id].recurrence_rule # None
                       /\ events[id].start_datetime <= start_to[1]
                       /\ \/ events[id].recurrence_end = None
                          \/ events[id].recurrence_end[1] >= start_from[1]
                       /\ can_list(events[id], current_user)}
        one_off_read == [i \in 1..Cardinality(one_off) |->
                            EventRead(rows_in_id_order(events, one_off)[i])]
        all_events == one_off_read
                        \o expanded_occurrences(rows_in_id_order(events, recurring),
                                                start_from[1], start_to[1])
    IN /\ UNCHANGED <<events, versions, changes, next_event_id, now, wiring, log, inflight>>
       /\ IF changed_since # None
          THEN Reply("list_events", 200, args,
                     slice(sort_by_updated_desc(rows_in_id_order(events, changed)),
                           skip, limit))
          ELSE IF start_from = None \/ start_to = None
          THEN Reply("list_events", 400, args,
                     "Both start_from and start_to must be provided when listing events")
          ELSE Reply("list_events", 200, args,
                     slice(sort_by_start(all_events), skip, limit))

\* -------------------------------------------------------------- update_event
\* The JSON body a client PUTs.  It carries the version_number the client
\* last saw, as the docstring of update_event asks (events.py:260).
UpdateBody ==
    [title : Optional(Titles), description : Descriptions,
     start_datetime : Optional(Times), end_datetime : Optional(Times),
     recurrence_rule : Rules, recurrence_end : RecurrenceEnds,
     version_number : 1..MaxVersions]

\* schemas.py:70-80: the fields EventUpdate declares.  version_number is
\* commented out (line 78); pydantic drops the keys a model does not declare.
EventUpdateFields ==
    {"title", "description", "start_datetime", "end_datetime",
     "recurrence_rule", "recurrence_end"}

EventUpdate(body) == [f \in EventUpdateFields |-> body[f]]

\* Python attribute lookup on a pydantic model: AttributeError for a name the
\* model does not declare.
hasattr(obj, name) == name \in DOMAIN obj

\* events.py:277-292
apply_update(event, event_in, t) ==
    [event EXCEPT
        !.title = IF event_in.title # None THEN event_in.title[1] ELSE @,
        !.description = IF event_in.description # None THEN event_in.description ELSE @,
        !.start_datetime = IF event_in.start_datetime # None
                           THEN event_in.start_datetime[1] ELSE @,
        !.end_datetime = IF event_in.end_datetime # None
                         THEN event_in.end_datetime[1] ELSE @,
        !.recurrence_rule = event_in.recurrence_rule,
        !.recurrence_end = event_in.recurrence_end,
        !.version_number = @ + 1,
        !.updated_at = t]

\* The object update_event hands to record_event_version as user_id
\* (events.py:298): the User, not its id.  It is no integer a created_by_id
\* column takes; it is written as a number outside the user ids.
UserObject(u) == 0 - u

\* events.py:277-300: the handler past its version check.
update_event_apply(event_id, event_in, current_user) ==
    LET args == [event_id |-> event_id]
        ev == apply_update(events[event_id], event_in, now)
        committed == [DB EXCEPT !.events[event_id] = ev]
        rec == record_event_version(committed, ev, UserObject(current_user),
                                    now, FALSE)
    IN /\ Install(session_end(committed, rec.db))
       /\ IF rec.ok
          THEN /\ Reply("update_event", 200, args, ev)
               /\ log' = [log EXCEPT ![event_id].updates = @ + 1]
          ELSE /\ Reply("update_event", 500, args, "Internal server error")
               /\ UNCHANGED log

\* events.py:252-300
update_event(event_id, body, current_user) ==
    LET event_in == EventUpdate(body)
        args == [event_id |-> event_id]
    IN /\ UNCHANGED <<next_event_id, now, wiring, inflight>>
       /\ IF event_id \notin DOMAIN events
          THEN /\ Reply("update_event", 404, args, "Event not found")
               /\ UNCHANGED <<events, versions, changes, log>>
          ELSE IF ~hasattr(event_in, "version_number")
          THEN \* line 271 raises AttributeError; main.py:84-89 answers 500
               /\ Reply("update_event", 500, args, "Internal server error")
               /\ UNCHANGED <<events, versions, changes, log>>
          ELSE IF events[event_id].version_number # event_in.version_number
          THEN /\ Reply("update_event", 409, args, "Event version has changed")
               /\ UNCHANGED <<events, versions, changes, log>>
          ELSE update_event_apply(event_id, event_in, current_user)

\* -------------------------------------------------------------- delete_event
\* events.py:305-321; models.py:86-88 and 164 cascade the delete to the
\* event's versions and their changes.
delete_event_without_cascade(event_id, current_user) ==
    LET args == [event_id |-> event_id]
    IN /\ UNCHANGED <<next_event_id, now, wiring, inflight>>
       /\ IF \/ event_id \notin DOMAIN events
             \/ events[event_id].creator_id # current_user
          THEN /\ Reply("delete_event", 404, args, "Event not found")
               /\ UNCHANGED <<events, versions, changes, log>>
          ELSE /\ events' = [i \in DOMAIN events \ {event_id} |-> events[i]]
               /\ UNCHANGED <<versions, changes>>
               /\ log' = [i \in DOMAIN log \ {event_id} |-> log[i]]
               /\ Reply("delete_event", 204, args,
                        [versions |-> Cardinality(VersionsOf(versions, event_id)),
                         changes |-> Cardinality({c \in changes : c.event_id = event_id})])

delete_event(event_id, current_user) ==
    LET args == [event_id |-> event_id]
    IN /\ UNCHANGED <<next_event_id, now, wiring, inflight>>
       /\ IF \/ event_id \notin DOMAIN events
             \/ events[event_id].creator_id # current_user
          THEN /\ Reply("delete_event", 404, args, "Event not found")
               /\ UNCHANGED <<events, versions, changes, log>>
          ELSE /\ events' = [i \in DOMAIN events \ {event_id} |-> events[i]]
               /\ versions' = {v \in versions : v.event_id # event_id}
               /\ changes' = {c \in changes : c.event_id # event_id}
               /\ log' = [i \in DOMAIN log \ {event_id} |-> log[i]]
               /\ Reply("delete_event", 204, args,
                        [versions |-> Cardinality(VersionsOf(versions, event_id)),
                         changes |-> Cardinality({c \in changes : c.event_id = event_id})])

\* ------------------------------------------------------------ rollback_event
\* versions.py:195-204
may_write(event, current_user) ==
    \/ event.creator_id = current_user
    \/ \E p \in event_permissions :
          /\ p.event_id = event.id
          /\ p.user_id = current_user
          /\ p.can_edit

\* versions.py:207-213
get_version_row(vs, event_id, version_number) ==
    LET hit == {v \in vs : v.event_id = event_id /\ v.version_number = version_number}
    IN IF hit = {} THEN None ELSE Some(CHOOSE v \in hit : TRUE)

\* versions.py:217-229.  The flush writes an UPDATE, and with it
\* updated_at (models.py:72-77), only when a value differs.
restore_end_from_start(event, snapshot, t) ==
    LET written == [event EXCEPT
                       !.title = snapshot.title,
                       !.description = snapshot.description,
                       !.start_datetime = isoparse(snapshot.start_datetime),
                       !.end_datetime = isoparse(snapshot.start_datetime)]
    IN IF written = event THEN event ELSE [written EXCEPT !.updated_at = t]

\* A restore that also clears the recurrence of the event.
restore_without_recurrence(event, snapshot, t) ==
    LET written == [event EXCEPT
                       !.title = snapshot.title,
                       !.description = snapshot.description,
                       !.start_datetime = isoparse(snapshot.start_datetime),
                       !.end_datetime = isoparse(snapshot.end_datetime),
                       !.recurrence_rule = None,
                       !.recurrence_end = None]
    IN IF written = event THEN event ELSE [written EXCEPT !.updated_at = t]

restore(event, snapshot, t) ==
    LET written == [event EXCEPT
                       !.title = snapshot.title,
                       !.description = snapshot.description,
                       !.start_datetime = isoparse(snapshot.start_datetime),
                       !.end_datetime = isoparse(snapshot.end_datetime)]
    IN IF written = event THEN event ELSE [written EXCEPT !.updated_at = t]

\* versions.py:177-241
rollback_event(event_id, version_number, current_user, db_fault) ==
    LET args == [event_id |-> event_id, version_number |-> version_number]
        old_version == get_version_row(versions, event_id, version_number)
    IN /\ UNCHANGED <<next_event_id, now, wiring, inflight>>
       /\ IF event_id \notin DOMAIN events
          THEN /\ Reply("rollback_event", 404, args, "Event not found")
               /\ UNCHANGED <<events, versions, changes, log>>
          ELSE IF ~may_write(events[event_id], current_user)
          THEN /\ Reply("rollback_event", 403, args, "Not allowed")
               /\ UNCHANGED <<events, versions, changes, log>>
          ELSE IF old_version = None
          THEN /\ Reply("rollback_event", 404, args, "Version not found")
               /\ UNCHANGED <<events, versions, changes, log>>
          ELSE LET ev == restore(events[event_id], old_version[1].snapshot, now)
                   held == [DB EXCEPT !.events[event_id] = ev]
                   rec == record_event_version(held, ev, current_user, now, db_fault)
               IN IF rec.ok
                  THEN \* line 234 commits the event and the new version
                       /\ Install(rec.db)
                       /\ Reply("rollback_event", 200, args, rec.row.version_number)
                       /\ log' = [log EXCEPT
                                    ![event_id].rollbacks = @ + 1,
                                    ![event_id].seen = events[event_id].version_number]
                  ELSE \* the exception leaves the handler before the commit
                       /\ Install(session_end(DB, DB))
                       /\ Reply("rollback_event", 500, args, "Internal server error")
                       /\ UNCHANGED log

\* --------------------------------------------------------- get_version_as_of
\* versions.py:332-341: WHERE created_at <= at ORDER BY version_number DESC
\* LIMIT 1.
version_as_of_before(vs, event_id, at) ==
    LET upto == {v \in VersionsOf(vs, event_id) : v.created_at < at}
    IN IF upto = {} THEN None
       ELSE Some(CHOOSE v \in upto : \A w \in upto : w.version_number <= v.version_number)

version_as_of(vs, event_id, at) ==
    LET upto == {v \in VersionsOf(vs, event_id) : v.created_at <= at}
    IN IF upto = {} THEN None
       ELSE Some(CHOOSE v \in upto : \A w \in upto : w.version_number <= v.version_number)

\* versions.py:312-348
get_version_as_of(event_id, at) ==
    LET args == [event_id |-> event_id, at |-> at]
        version == version_as_of(versions, event_id, at)
    IN /\ UNCHANGED <<events, versions, changes, next_event_id, now, wiring, log, inflight>>
       /\ IF event_id \notin DOMAIN events
          THEN Reply("get_version_as_of", 404, args, "Event not found")
          ELSE IF version = None
          THEN Reply("get_version_as_of", 404, args, "No version at or before")
          ELSE Reply("get_version_as_of", 200, args, version[1])

\* ------------------------------------------------- history, diff, changelog
\* versions.py:39-47, the read access check of the four handlers below.
may_read(event, current_user) ==
    \/ event.creator_id = current_user
    \/ \E p \in event_permissions :
          p.event_id = event.id /\ p.user_id = current_user

\* versions.py:49-54, 275-280: ORDER BY version_number.
RECURSIVE order_by_version_number(_)
order_by_version_number(rows) ==
    IF rows = {} THEN <<>>
    ELSE LET first == CHOOSE v \in rows :
                          \A w \in rows : v.version_number <= w.version_number
         IN <<first>> \o order_by_version_number(rows \ {first})

\* versions.py:22-62
list_versions(event_id, current_user) ==
    LET args == [event_id |-> event_id, current_user |-> current_user]
        vers == order_by_version_number(VersionsOf(versions, event_id))
    IN /\ UNCHANGED <<events, versions, changes, next_event_id, now, wiring, log, inflight>>
       /\ IF event_id \notin DOMAIN events
          THEN Reply("list_versions", 404, args, "Event not found")
          ELSE IF ~may_read(events[event_id], current_user)
          THEN Reply("list_versions", 403, args, "Not allowed")
          ELSE Reply("list_versions", 200, args,
                     [i \in 1..Len(vers) |->
                        [version_number |-> vers[i].version_number,
                         created_at |-> vers[i].created_at,
                         created_by_id |-> vers[i].created_by_id]])

\* versions.py:65-108
get_version(event_id, version_number, current_user) ==
    LET args == [event_id |-> event_id, version_number |-> version_number,
                 current_user |-> current_user]
        version == get_version_row(versions, event_id, version_number)
    IN /\ UNCHANGED <<events, versions, changes, next_event_id, now, wiring, log, inflight>>
       /\ IF event_id \notin DOMAIN events
          THEN Reply("get_version", 404, args, "Event not found")
          ELSE IF ~may_read(events[event_id], current_user)
          THEN Reply("get_version", 403, args, "Not allowed")
          ELSE IF version = None
          THEN Reply("get_version", 404, args, "Version not found")
          ELSE Reply("get_version", 200, args,
                     [version_number |-> version[1].version_number,
                      snapshot |-> version[1].snapshot,
                      created_at |-> version[1].created_at,
                      created_by_id |-> version[1].created_by_id])

\* versioning.py:27-38: the keys of a snapshot, in the order of the dict.
SnapshotKeyOrder ==
    <<"title", "description", "start_datetime", "end_datetime", "creator_id",
      "created_at">>

\* versions.py:159-169: the keys whose values differ, in the order of the
\* newer snapshot.
diffs(old_snapshot, new_snapshot_) ==
    LET differs(key) == old_snapshot[key] # new_snapshot_[key]
        keys == SelectSeq(SnapshotKeyOrder, differs)
    IN [i \in 1..Len(keys) |->
          [field_name |-> keys[i],
           old_value |-> old_snapshot[keys[i]],
           new_value |-> new_snapshot_[keys[i]]]]

\* versions.py:111-169
get_diff(event_id, older, newer, current_user) ==
    LET args == [event_id |-> event_id, older |-> older, newer |-> newer,
                 current_user |-> current_user]
        v_old == get_version_row(versions, event_id, older)
        v_new == get_version_row(versions, event_id, newer)
    IN /\ UNCHANGED <<events, versions, changes, next_event_id, now, wiring, log, inflight>>
       /\ IF event_id \notin DOMAIN events
          THEN Reply("get_diff", 404, args, "Event not found")
          ELSE IF ~may_read(events[event_id], current_user)
          THEN Reply("get_diff", 403, args, "Not allowed")
          ELSE IF v_old = None \/ v_new = None
          THEN Reply("get_diff", 404, args, "Version not found")
          ELSE Reply("get_diff", 200, args, diffs(v_old[1].snapshot, v_new[1].snapshot))

\* versions.py:285-296: the EventChange rows of one version, ORDER BY id:
\* the order in which versioning.py:55-69 added them.
changes_of(chs, v) ==
    LET mine == {c \in chs : /\ c.event_id = v.event_id
                             /\ c.version_number = v.version_number}
        changed(key) == \E c \in mine : c.field_name = key
        keys == SelectSeq(SnapshotKeyOrder, changed)
    IN [i \in 1..Len(keys) |->
          LET c == CHOOSE c \in mine : c.field_name = keys[i]
          IN [field_name |-> c.field_name, old_value |-> c.old_value,
              new_value |-> c.new_value, changed_at |-> c.changed_at]]

\* versions.py:282-307
changelog(vs, chs, event_id) ==
    LET vers == order_by_version_number(VersionsOf(vs, event_id))
    IN [i \in 1..Len(vers) |->
          [version_number |-> vers[i].version_number,
           created_at |-> vers[i].created_at,
           created_by_id |-> vers[i].created_by_id,
           changes |-> changes_of(chs, vers[i])]]

\* A changelog that takes the EventChange rows it returns out of the table.
get_changelog_consuming(event_id, current_user) ==
    LET args == [event_id |-> event_id, current_user |-> current_user]
    IN /\ UNCHANGED <<events, versions, next_event_id, now, wiring, log, inflight>>
       /\ IF event_id \notin DOMAIN events
          THEN /\ Reply("get_changelog", 404, args, "Event not found")
               /\ UNCHANGED changes
          ELSE IF ~may_read(events[event_id], current_user)
          THEN /\ Reply("get_changelog", 403, args, "Not allowed")
               /\ UNCHANGED changes
          ELSE /\ Reply("get_changelog", 200, args, changelog(versions, changes, event_id))
               /\ changes' = {c \in changes : c.event_id # event_id}

\* versions.py:243-307
get_changelog(event_id, current_user) ==
    LET args == [event_id |-> event_id, current_user |-> current_user]
    IN /\ UNCHANGED <<events, versions, changes, next_event_id, now, wiring, log, inflight>>
       /\ IF event_id \notin DOMAIN events
          THEN Reply("get_changelog", 404, args, "Event not found")
          ELSE IF ~may_read(events[event_id], current_user)
          THEN Reply("get_changelog", 403, args, "Not allowed")
          ELSE Reply("get_changelog", 200, args, changelog(versions, changes, event_id))

\* ------------------------------------------------------------------- clock
Tick ==
    /\ now < MaxClock
    /\ now' = now + 1
    /\ UNCHANGED <<events, versions, changes, next_event_id, wiring, response, log,
                   inflight>>

\* ------------------------------------------------------------ specification
\* db/session.py:21-33: each request in flight has an AsyncSession of its own.
Sessions == {1, 2}
Idle == [pc |-> "idle"]

NoResponse == [op |-> "none", status |-> 0, args |-> <<>>, ret |-> <<>>]

InitTables ==
    /\ events = <<>>
    /\ versions = {}
    /\ changes = {}
    /\ next_event_id = 1
    /\ now = 0
    /\ response = NoResponse
    /\ log = <<>>
    /\ inflight = [s \in Sessions |-> Idle]

\* A database statement can fail (the connection to DATABASE_URL drops) where
\* the engine of db/session.py:11-19 is used; the in-memory engine of
\* tests/conftest.py:13-21 has no connection to lose.
Faults == IF wiring = PerRequest THEN BOOLEAN ELSE {FALSE}

CreateEvent(inputs) ==
    \E event_in \in inputs, u \in Users, f \in Faults : create_event(event_in, u, f)

UpdateEvent(bodies) ==
    \E id \in EventIds, body \in bodies, u \in Users : update_event(id, body, u)

BatchCreateEvents(batches) ==
    \E batch_in \in batches, u \in Users, f \in Faults :
        batch_create_events(batch_in, u, f)

DeleteEvent ==
    \E id \in EventIds, u \in Users : delete_event(id, u)

\* Window bounds: instant 0, half a second later, and whole weeks.
WindowTimes == {0, 1} \cup {w * Week : w \in 1..MaxWeeks}

ListEvents ==
    \E start_from \in Optional(WindowTimes), start_to \in Optional(WindowTimes),
       changed_since \in Optional({0}), u \in Users :
        /\ changed_since # None => (start_from = None /\ start_to = None)
        /\ (start_from = None) = (start_to = None)
        /\ list_events(DefaultSkip, DefaultLimit, start_from, start_to, changed_since, u)

RollbackEvent ==
    \E id \in EventIds, k \in 1..MaxVersions, u \in Users, f \in Faults :
        /\ Cardinality(VersionsOf(versions, id)) < MaxVersions
        /\ rollback_event(id, k, u, f)

GetVersionAsOf ==
    \E id \in EventIds, at \in 0..MaxClock : get_version_as_of(id, at)

\* The requests drawn: bodies of the schemas, over a few values per field.
CreateBodies ==
    {b \in EventCreate : /\ b.title = "A" /\ b.description = None
                         /\ b.recurrence_rule = None /\ b.recurrence_end = None}

UpdateBodies ==
    {b \in UpdateBody : /\ b.recurrence_rule = None /\ b.recurrence_end = None
                        /\ b.title \in {None, Some("B")}
                        /\ b.description = None
                        /\ b.start_datetime \in {None, Some(0)}
                        /\ b.end_datetime \in {None, Some(MaxTime)}
                        /\ b.version_number <= 2}

\* Batches of one or two items.
Batches(items) ==
    {<<b>> : b \in items} \cup {<<b1, b2>> : b1 \in items, b2 \in items}

BatchBodies ==
    Batches({b \in CreateBodies : b.end_datetime = 1})

Init == InitTables /\ wiring = PerRequest

Next ==
    \/ Tick
    \/ CreateEvent(CreateBodies)
    \/ BatchCreateEvents(BatchBodies)
    \/ UpdateEvent(UpdateBodies)
    \/ DeleteEvent
    \/ RollbackEvent
    \/ GetVersionAsOf

Spec == Init /\ [][Next]_vars

\* The application under the session wiring of the test suite.
SharedBodies ==
    {b \in EventCreate : /\ b.start_datetime = 0 /\ b.end_datetime = 1
                         /\ b.recurrence_rule = None /\ b.recurrence_end = None
                         /\ (b.title = "A") = (b.description = None)}

SharedUpdates ==
    {b \in UpdateBodies : b.start_datetime = None /\ b.end_datetime = None}

InitShared == InitTables /\ wiring = Shared

NextShared ==
    \/ Tick
    \/ CreateEvent(SharedBodies)
    \/ BatchCreateEvents(Batches(SharedBodies))
    \/ UpdateEvent(SharedUpdates)
    \/ DeleteEvent
    \/ RollbackEvent
    \/ GetVersionAsOf

SpecSharedSession == InitShared /\ [][NextShared]_vars

\* The conflict detector called on the tables the application builds.
NextConflicts ==
    \/ CreateEvent(CreateBodies)
    \/ DeleteEvent
    \/ DetectEventConflicts

SpecConflicts == Init /\ [][NextConflicts]_vars

\* The conflict detector on tables that hold recurring events.
SeriesBodies ==
    {b \in EventCreate : /\ b.title = "A" /\ b.description = None
                         /\ b.start_datetime = 0 /\ b.end_datetime = Second}

NextSeriesConflicts ==
    \/ CreateEvent(SeriesBodies)
    \/ DetectInLaterWeeks

SpecSeriesConflicts == Init /\ [][NextSeriesConflicts]_vars

\* Listing, over events with and without a recurrence rule.
ListBodies ==
    {b \in EventCreate : /\ b.title = "A" /\ b.description = None
                         /\ b.start_datetime \in {0, 1}
                         /\ b.end_datetime = b.start_datetime + 1}

NextListing ==
    \/ CreateEvent(ListBodies)
    \/ ListEvents

SpecListing == Init /\ [][NextListing]_vars

\* ------------------------------------------------ requests served together
\* uvicorn serves requests concurrently: a handler runs up to an await on the
\* database and another request's handler runs meanwhile.  A step below is
\* the part of a handler between two points where the database is touched.
Serve(s, request) == inflight' = [inflight EXCEPT ![s] = request]

Done(op, status, req, event) ==
    [pc |-> "done", op |-> op, status |-> status, req |-> req, event |-> event]

\* events.py:39-50: the INSERT of the event, the commit and the refresh.
create_event_commit(s, event_in, current_user) ==
    LET ev == new_event(event_in, current_user, next_event_id, now)
    IN /\ inflight[s] = Idle
       /\ next_event_id <= MaxEvents
       /\ next_event_id' = next_event_id + 1
       /\ events' = (next_event_id :> ev) @@ events
       /\ log' = (next_event_id :> NewLog("create_event")) @@ log
       /\ Serve(s, [pc |-> "create_event:53", op |-> "create_event",
                    req |-> [event_in |-> event_in, current_user |-> current_user],
                    event |-> ev])
       /\ UNCHANGED <<versions, changes, now, wiring, response>>

\* events.py:53-55: the first version is recorded in the request's session,
\* the handler returns and the session is closed.
create_event_record(s, db_fault) ==
    LET r == inflight[s]
        rec == record_event_version(DB, r.event, r.req.current_user, now, db_fault)
    IN /\ r.pc = "create_event:53"
       /\ Install(session_end(DB, rec.db))
       /\ Serve(s, Done("create_event", IF rec.ok THEN 201 ELSE 500, r.req, r.event))
       /\ UNCHANGED <<next_event_id, now, wiring, response, log>>

\* events.py:263-269: the SELECT of the event.  The row is not locked.
update_event_load(s, event_id, body, current_user) ==
    LET req == [event_id |-> event_id, body |-> body, current_user |-> current_user]
    IN /\ inflight[s] = Idle
       /\ IF event_id \notin DOMAIN events
          THEN Serve(s, Done("update_event", 404, req, None))
          ELSE Serve(s, [pc |-> "update_event:271", op |-> "update_event",
                         req |-> req, event |-> events[event_id]])
       /\ UNCHANGED <<events, versions, changes, next_event_id, now, wiring,
                      response, log>>

\* events.py:271-300: the version check on the row as it was loaded, then
\* the field writes, the commit and the recording of the version.
update_event_check(s) ==
    LET r == inflight[s]
        event_in == EventUpdate(r.req.body)
    IN /\ r.pc = "update_event:271"
       /\ UNCHANGED <<next_event_id, now, wiring, response>>
       /\ IF ~hasattr(event_in, "version_number")
          THEN /\ Serve(s, Done("update_event", 500, r.req, r.event))
               /\ UNCHANGED <<events, versions, changes, log>>
          ELSE IF r.event.version_number # event_in.version_number
          THEN /\ Serve(s, Done("update_event", 409, r.req, r.event))
               /\ UNCHANGED <<events, versions, changes, log>>
          ELSE LET ev == apply_update(r.event, event_in, now)
                   committed == [DB EXCEPT !.events[r.req.event_id] = ev]
                   rec == record_event_version(committed, ev,
                                               UserObject(r.req.current_user), now, FALSE)
               IN /\ Install(session_end(committed, rec.db))
                  /\ Serve(s, Done("update_event", IF rec.ok THEN 200 ELSE 500,
                                   r.req, ev))
                  /\ log' = IF rec.ok
                            THEN [log EXCEPT ![r.req.event_id].updates = @ + 1]
                            ELSE log

\* The response is sent; the worker takes the next request.
Retire(s) ==
    /\ inflight[s].pc = "done"
    /\ Serve(s, Idle)
    /\ UNCHANGED <<events, versions, changes, next_event_id, now, wiring, response, log>>

ConcurrentBodies ==
    {b \in CreateBodies : b.start_datetime < b.end_datetime}

ConcurrentUpdates ==
    {b \in UpdateBodies : b.start_datetime = None /\ b.end_datetime = None}

CreateEventCommit ==
    \E s \in Sessions, event_in \in ConcurrentBodies, u \in Users :
        create_event_commit(s, event_in, u)

CreateEventRecord ==
    \E s \in Sessions, f \in Faults : create_event_record(s, f)

UpdateEventLoad ==
    \E s \in Sessions, id \in EventIds, body \in ConcurrentUpdates, u \in Users :
        update_event_load(s, id, body, u)

UpdateEventCheck == \E s \in Sessions : update_event_check(s)

RetireRequest == \E s \in Sessions : Retire(s)

NextConcurrent ==
    \/ CreateEventCommit
    \/ CreateEventRecord
    \/ UpdateEventLoad
    \/ UpdateEventCheck
    \/ RetireRequest

SpecConcurrent == Init /\ [][NextConcurrent]_vars

\* --------------------------------------------- the version store, step by step
\* record_event_version as its callers run it: the caller has loaded an event
\* and written fields of it (versions.py:217-229, events.py:277-292), calls
\* record_event_version, and then commits (versions.py:234) or lets the
\* session close (events.py:53-55).
Edits(event) ==
    {event,
     [event EXCEPT !.title = IF @ = "A" THEN "B" ELSE "A"],
     [event EXCEPT !.description = IF @ = None THEN Some("d") ELSE None]}

\* versioning.py:17-24: the SELECT of the last version.  It sees the rows
\* committed by then; the rows are not locked.
record_select(s, event, user_id) ==
    /\ inflight[s] = Idle
    /\ Cardinality(VersionsOf(versions, event.id)) < MaxVersions
    /\ Serve(s, [pc |-> "record_event_version:41", op |-> "record_event_version",
                 req |-> [event_id |-> event.id,
                          version_number |-> next_version_number(versions, event.id)],
                 user_id |-> user_id,
                 seen |-> VersionsOf(versions, event.id),
                 event |-> event])
    /\ UNCHANGED <<events, versions, changes, next_event_id, now, wiring, response, log>>

\* The (event_id, version_number) a session has inserted and not committed.
held_keys(s) ==
    IF inflight[s].pc = "record_event_version:72"
    THEN {<<v.event_id, v.version_number>> : v \in inflight[s].held.versions}
    ELSE {}

\* versioning.py:41-69: the INSERT and its flush, then the EventChange rows.
\* The INSERT waits while another transaction holds the same key uncommitted
\* (models.py:168), and fails once that key is committed.
record_flush(s) ==
    LET r == inflight[s]
        row == version_row(r.seen, r.event, r.user_id, now)
    IN /\ r.pc = "record_event_version:41"
       /\ \A o \in Sessions \ {s} :
             <<row.event_id, row.version_number>> \notin held_keys(o)
       /\ IF flush_fails(versions, row, FALSE)
          THEN Serve(s, Done("record_event_version", 500, r.req, None))
          ELSE Serve(s, [pc |-> "record_event_version:72", op |-> "record_event_version",
                         req |-> r.req, event |-> r.event,
                         held |-> [versions |-> {row},
                                   changes |-> change_rows(r.seen, row, now)]])
       /\ UNCHANGED <<events, versions, changes, next_event_id, now, wiring, response, log>>

\* versioning.py:71-72, "Return so caller can commit": the caller commits its
\* session, or returns and the session is closed.
record_end(s, commit) ==
    LET r == inflight[s]
    IN /\ r.pc = "record_event_version:72"
       /\ IF commit
          THEN /\ events' = [events EXCEPT ![r.event.id] = r.event]
               /\ versions' = versions \cup r.held.versions
               /\ changes' = changes \cup r.held.changes
               /\ Serve(s, Done("record_event_version", 200, r.req, None))
          ELSE /\ Serve(s, Done("record_event_version", 201, r.req, None))
               /\ UNCHANGED <<events, versions, changes>>
       /\ UNCHANGED <<next_event_id, now, wiring, response, log>>

RecordSelect ==
    \E s \in Sessions, id \in DOMAIN events :
        \E event \in Edits(events[id]) :
            record_select(s, event, events[id].creator_id)

RecordFlush == \E s \in Sessions : record_flush(s)

RecordEnd == \E s \in Sessions, commit \in BOOLEAN : record_end(s, commit)

\* The database after one create_event under get_db: the event is there,
\* its first version is not (events.py:49-55, db/session.py:31-33).
StoreBodies ==
    {b \in CreateBodies : b.start_datetime = 0 /\ b.end_datetime = 1}

InitVersionStore ==
    /\ wiring = PerRequest
    /\ \E event_in \in StoreBodies, u \in Users :
          /\ events = (1 :> new_event(event_in, u, 1, 0))
          /\ log = (1 :> NewLog("create_event"))
    /\ versions = {}
    /\ changes = {}
    /\ next_event_id = 2
    /\ now = 0
    /\ response = NoResponse
    /\ inflight = [s \in Sessions |-> Idle]

NextVersionStore ==
    \/ RecordSelect
    \/ RecordFlush
    \/ RecordEnd
    \/ RetireRequest

SpecVersionStore == InitVersionStore /\ [][NextVersionStore]_vars

\* ------------------------------------------------ histories and their deletion
\* A caller that has written fields of an event, records the version and
\* commits, as versions.py:217-236 does.
record_and_commit(event, user_id) ==
    LET held == [DB EXCEPT !.events[event.id] = event]
        rec == record_event_version(held, event, user_id, now, FALSE)
    IN /\ Install(rec.db)
       /\ Reply("record_event_version", IF rec.ok THEN 200 ELSE 500,
                [event_id |-> event.id], rec.row.version_number)
       /\ UNCHANGED <<next_event_id, now, wiring, log, inflight>>

RecordAndCommit ==
    \E id \in DOMAIN events :
        /\ Cardinality(VersionsOf(versions, id)) < MaxVersions
        /\ \E event \in Edits(events[id]) :
              record_and_commit(event, events[id].creator_id)

NextCascade ==
    \/ CreateEvent(StoreBodies)
    \/ RecordAndCommit
    \/ DeleteEvent

SpecCascade == Init /\ [][NextCascade]_vars

\* ------------------------------------------------- rollback of edited events
\* Events of one second, with and without a recurrence.
RollbackBodies ==
    {b \in EventCreate : /\ b.title = "A" /\ b.description = None
                         /\ b.start_datetime = 0 /\ b.end_datetime = Second
                         /\ b.recurrence_rule \in {None, Some([FREQ |-> "WEEKLY", COUNT |-> None])}
                         /\ (b.recurrence_rule = None) = (b.recurrence_end = None)}

\* The database after two create_event under get_db: a recurring event and
\* a one-off, without their first versions (events.py:49-55).
InitRollback ==
    /\ wiring = PerRequest
    /\ \E series \in RollbackBodies, single \in RollbackBodies, u1 \in Users, u2 \in Users :
          /\ series.recurrence_rule # None
          /\ single.recurrence_rule = None
          /\ events = (1 :> new_event(series, u1, 1, 0)) @@ (2 :> new_event(single, u2, 2, 0))
          /\ log = (1 :> NewLog("create_event")) @@ (2 :> NewLog("create_event"))
    /\ versions = {}
    /\ changes = {}
    /\ next_event_id = 3
    /\ now = 0
    /\ response = NoResponse
    /\ inflight = [s \in Sessions |-> Idle]

\* An event moved by a tick, inside its second.
Moved(event) ==
    {[event EXCEPT !.start_datetime = 1 - @]}

\* The recurring events are edited, and each edit recorded and committed.
EditAndCommit ==
    \E id \in DOMAIN events :
        /\ events[id].recurrence_rule # None
        /\ Cardinality(VersionsOf(versions, id)) < MaxVersions
        /\ \E event \in Edits(events[id]) \cup Moved(events[id]) :
              record_and_commit(event, events[id].creator_id)

NextRollback ==
    \/ EditAndCommit
    \/ RollbackEvent

SpecRollback == InitRollback /\ [][NextRollback]_vars

\* --------------------------------------------- the field writes of an update
\* Lines 277-300 of update_event run on a stored event, for the bodies
\* EventUpdate admits.  No request reaches these lines: line 271 raises.
FieldUpdates ==
    {EventUpdate(b) : b \in {c \in UpdateBody :
        /\ c.title \in {None, Some("B")}
        /\ c.description = None
        /\ c.start_datetime \in {None, Some(1)}
        /\ c.end_datetime = None
        /\ c.recurrence_rule \in {None, Some([FREQ |-> "WEEKLY", COUNT |-> None])}}}

UpdateEventApply ==
    \E id \in DOMAIN events, event_in \in FieldUpdates :
        /\ events[id].version_number < MaxVersions
        /\ update_event_apply(id, event_in, events[id].creator_id)
        /\ UNCHANGED <<next_event_id, now, wiring, inflight>>

NextUpdateFields ==
    \/ CreateEvent(SeriesBodies)
    \/ UpdateEventApply

SpecUpdateFields == Init /\ [][NextUpdateFields]_vars

\* ------------------------------------------------------ reads of a history
ListVersions ==
    \E id \in EventIds \cup {next_event_id}, u \in Users : list_versions(id, u)

GetVersion ==
    \E id \in EventIds \cup {next_event_id}, k \in 1..MaxVersions, u \in Users :
        get_version(id, k, u)

GetDiff ==
    \E id \in EventIds \cup {next_event_id}, older \in 1..MaxVersions,
       newer \in 1..MaxVersions, u \in Users :
        get_diff(id, older, newer, u)

GetChangelog ==
    \E id \in EventIds \cup {next_event_id}, u \in Users : get_changelog(id, u)

NextReads ==
    \/ EditAndCommit
    \/ ListVersions
    \/ GetVersion
    \/ GetDiff
    \/ GetChangelog
    \/ GetVersionAsOf

SpecReads == InitRollback /\ [][NextReads]_vars

\* ------------------------------------------------------------------ claims
Tables == <<events, versions, changes>>

VersionNumbers(event_id) ==
    {v.version_number : v \in VersionsOf(versions, event_id)}

\* Spec section 4.4: [s1, e1) and [s2, e2) conflict iff s1 < e2 and s2 < e1.
overlap(s1, e1, s2, e2) == s1 < e2 /\ s2 < e1

\* C1: an event made by create_event, after N accepted updates and no
\* rollback, has version_number 1 + N and exactly the EventVersion rows
\* numbered 1..1+N.
C1_VersionsTrackUpdates ==
    \A id \in DOMAIN events :
        (log[id].made_by = "create_event" /\ log[id].rollbacks = 0) =>
            /\ events[id].version_number = 1 + log[id].updates
            /\ VersionNumbers(id) = 1..(1 + log[id].updates)
            /\ Cardinality(VersionsOf(versions, id)) = 1 + log[id].updates

\* C2: an update of an existing event that carries the event's current
\* version_number is accepted: the fields sent are applied, version_number
\* grows by one and the updated event is returned.
C2_FreshUpdateAccepted ==
    [][\A id \in EventIds, body \in UpdateBodies, u \in Users :
          (/\ update_event(id, body, u)
           /\ id \in DOMAIN events
           /\ body.version_number = events[id].version_number)
          => /\ response'.status = 200
             /\ events'[id].version_number = events[id].version_number + 1
             /\ body.title # None => events'[id].title = body.title[1]
             /\ body.description # None => events'[id].description = body.description
             /\ body.start_datetime # None =>
                    events'[id].start_datetime = body.start_datetime[1]
             /\ body.end_datetime # None =>
                    events'[id].end_datetime = body.end_datetime[1]
             /\ response'.ret = events'[id]]_vars

\* C3: an update that carries a version_number other than the event's
\* current one is answered 409, and changes no event and adds no version.
C3_StaleUpdateRejected ==
    [][\A id \in EventIds, body \in UpdateBodies, u \in Users :
          (/\ update_event(id, body, u)
           /\ id \in DOMAIN events
           /\ body.version_number # events[id].version_number)
          => /\ response'.status = 409
             /\ UNCHANGED Tables]_vars

\* C4: a create_event whose interval overlaps an event of the same owner is
\* answered 409 and adds no event and no version.
C4_OverlappingCreateRejected ==
    [][\A event_in \in CreateBodies, u \in Users, f \in Faults :
          (/\ create_event(event_in, u, f)
           /\ \E i \in DOMAIN events :
                  /\ events[i].creator_id = u
                  /\ overlap(event_in.start_datetime, event_in.end_datetime,
                             events[i].start_datetime, events[i].end_datetime))
          => /\ response'.status = 409
             /\ UNCHANGED Tables]_vars

\* C5: for a candidate [start, end) with start < end, detect_event_conflicts
\* returns only rows of the owner other than exclude_event_id, and of the
\* stored events with start < end exactly those with S < end and start < E:
\* every one of them, and none that only touches the candidate.
C5_ConflictsAreOverlaps ==
    (response.op = "detect_event_conflicts" /\ response.args.start < response.args.end) =>
        LET a == response.args
            excluded(e) == a.exclude_event_id # None /\ e.id = a.exclude_event_id[1]
        IN /\ \A e \in response.ret :
                 /\ e.id \in DOMAIN events /\ events[e.id] = e
                 /\ e.creator_id = a.user_id
                 /\ ~excluded(e)
           /\ \A i \in DOMAIN events :
                 events[i].start_datetime < events[i].end_datetime =>
                    (events[i] \in response.ret <=>
                        /\ events[i].creator_id = a.user_id
                        /\ ~excluded(events[i])
                        /\ overlap(a.start, a.end,
                                   events[i].start_datetime, events[i].end_datetime))

\* C5 happens: a call that returns an overlapping event and leaves out an
\* event of the same owner that ends where the candidate starts.
C5_Witness ==
    /\ response.op = "detect_event_conflicts"
    /\ response.args.start < response.args.end
    /\ response.ret # {}
    /\ \E i \in DOMAIN events :
          /\ events[i].creator_id = response.args.user_id
          /\ events[i].start_datetime < events[i].end_datetime
          /\ events[i].end_datetime = response.args.start
          /\ events[i] \notin response.ret

\* C6: an update that moves an event onto the interval of another event of
\* the same owner is answered 409 and changes nothing.
C6_OverlappingUpdateRejected ==
    [][\A id \in EventIds, body \in UpdateBodies, u \in Users :
          (/\ update_event(id, body, u)
           /\ id \in DOMAIN events
           /\ body.version_number = events[id].version_number
           /\ LET moved == apply_update(events[id], EventUpdate(body), now)
              IN \E i \in DOMAIN events \ {id} :
                    /\ events[i].creator_id = events[id].creator_id
                    /\ overlap(moved.start_datetime, moved.end_datetime,
                               events[i].start_datetime, events[i].end_datetime))
          => /\ response'.status = 409
             /\ UNCHANGED Tables]_vars

MaxVersionNumber(event_id) ==
    CHOOSE n \in VersionNumbers(event_id) : \A k \in VersionNumbers(event_id) : k <= n

C8_AppendOnly ==
    [][/\ \A v \in versions :
             v \in versions' \/ (v.event_id \in DOMAIN events \ DOMAIN events')
       /\ \A new \in versions' \ versions :
             \A v \in VersionsOf(versions, new.event_id) :
                 v.version_number < new.version_number]_vars

\* C8 happens: rollbacks have grown the history of an event to three rows.
C8_Witness ==
    \E id \in DOMAIN events :
        /\ log[id].rollbacks = 2
        /\ Cardinality(VersionsOf(versions, id)) = 3

C10_FailedWriteChangesNothing ==
    [][(/\ \/ \E event_in \in CreateBodies, u \in Users, f \in Faults :
                  create_event(event_in, u, f)
           \/ \E id \in EventIds, body \in UpdateBodies, u \in Users :
                  update_event(id, body, u)
           \/ \E id \in EventIds, k \in 1..MaxVersions, u \in Users, f \in Faults :
                  rollback_event(id, k, u, f)
        /\ response'.status >= 400)
       => UNCHANGED Tables]_vars

\* C11: of two update_event requests for one event that carry the same
\* expected version_number, served in any interleaving, at most one is
\* accepted and the other is answered 409; the step that rejects a request
\* writes nothing.
C11_OneOfTwoUpdatesAccepted ==
    /\ [](\A s1 \in Sessions, s2 \in Sessions :
            (/\ s1 # s2
             /\ inflight[s1].pc = "done" /\ inflight[s1].op = "update_event"
             /\ inflight[s2].pc = "done" /\ inflight[s2].op = "update_event"
             /\ inflight[s1].status # 404 /\ inflight[s2].status # 404
             /\ inflight[s1].req.event_id = inflight[s2].req.event_id
             /\ inflight[s1].req.body.version_number
                    = inflight[s2].req.body.version_number)
            => /\ inflight[s1].status \in {200, 409}
               /\ ~(inflight[s1].status = 200 /\ inflight[s2].status = 200))
    /\ [][\A s \in Sessions :
            (update_event_check(s) /\ inflight'[s].status # 200)
                => UNCHANGED Tables]_vars

\* C13: of two create_event or update_event requests of one owner, served
\* in any interleaving, whose intervals overlap each other, at most one has
\* its event committed.
C13_OneOfOverlappingCommitted ==
    \A s1 \in Sessions, s2 \in Sessions :
        (/\ s1 # s2
         /\ inflight[s1].pc \in {"create_event:53", "done"}
         /\ inflight[s2].pc \in {"create_event:53", "done"}
         /\ inflight[s1].event # None /\ inflight[s2].event # None
         /\ inflight[s1].req.current_user = inflight[s2].req.current_user
         /\ inflight[s1].event.id # inflight[s2].event.id
         /\ overlap(inflight[s1].event.start_datetime, inflight[s1].event.end_datetime,
                    inflight[s2].event.start_datetime, inflight[s2].event.end_datetime))
        => ~(/\ inflight[s1].event.id \in DOMAIN events
             /\ events[inflight[s1].event.id] = inflight[s1].event
             /\ inflight[s2].event.id \in DOMAIN events
             /\ events[inflight[s2].event.id] = inflight[s2].event
             /\ inflight[s1].op = "create_event" \/ inflight[s1].status = 200
             /\ inflight[s2].op = "create_event" \/ inflight[s2].status = 200)

\* C12: under every interleaving of record_event_version calls for one
\* event, the committed EventVersion rows of the event are numbered 1..n
\* with n the number of rows: no number is shared and none is skipped.
C12_NumbersUniqueAndGapless ==
    \A id \in EventIds :
        VersionNumbers(id) = 1..Cardinality(VersionsOf(versions, id))

\* C12 happens: two calls for one event computed the same version_number;
\* one committed its row and the INSERT of the other was refused.
C12_Witness ==
    \E s1 \in Sessions, s2 \in Sessions :
        /\ inflight[s1].pc = "done" /\ inflight[s1].op = "record_event_version"
        /\ inflight[s2].pc = "done" /\ inflight[s2].op = "record_event_version"
        /\ inflight[s1].status = 200
        /\ inflight[s2].status = 500
        /\ inflight[s1].req = inflight[s2].req
        /\ inflight[s1].req.version_number = 2

\* C14: the EventChange rows of a version numbered above 1 are one row for
\* each snapshot key whose value differs from the snapshot of the version
\* before, with the old and the new value as text, and no row for a key
\* whose value is the same; version 1 has no EventChange rows.
C14_ChangesAreTheDiff ==
    \A v \in versions :
        LET mine == {c \in changes : /\ c.event_id = v.event_id
                                     /\ c.version_number = v.version_number}
            prev == get_version_row(versions, v.event_id, v.version_number - 1)
        IN IF v.version_number = 1
           THEN mine = {}
           ELSE /\ prev # None
                /\ \A c \in mine : c.field_name \in SnapshotKeys
                /\ \A k \in SnapshotKeys :
                      LET rows == {c \in mine : c.field_name = k}
                      IN IF prev[1].snapshot[k] = v.snapshot[k]
                         THEN rows = {}
                         ELSE /\ Cardinality(rows) = 1
                              /\ \A c \in rows :
                                    /\ c.old_value = value_text(k, prev[1].snapshot[k])
                                    /\ c.new_value = value_text(k, v.snapshot[k])

\* C14 happens: a version whose only change is the description, from None
\* to "d", has exactly that one EventChange row.
C14_Witness ==
    \E v \in versions :
        /\ v.version_number = 2
        /\ {[field_name |-> c.field_name, old_value |-> c.old_value,
             new_value |-> c.new_value] :
               c \in {x \in changes : /\ x.event_id = v.event_id
                                      /\ x.version_number = v.version_number}}
           = {[field_name |-> "description", old_value |-> None,
               new_value |-> Some(str("d"))]}

\* C15: every live event, made by create_event or by batch_create_events,
\* has an EventVersion numbered 1, and that version has no EventChange rows.
C15_EveryEventHasVersionOne ==
    \A id \in DOMAIN events :
        /\ 1 \in VersionNumbers(id)
        /\ \A c \in changes : ~(c.event_id = id /\ c.version_number = 1)

\* C16: a delete_event that succeeds removes the event and every
\* EventVersion and EventChange row of it, and leaves the other events and
\* their rows as they were.
C16_DeleteCascades ==
    [][\A id \in EventIds, u \in Users :
          (delete_event(id, u) /\ response'.status = 204)
          => /\ id \in DOMAIN events
             /\ DOMAIN events' = DOMAIN events \ {id}
             /\ \A j \in DOMAIN events' : events'[j] = events[j]
             /\ versions' = {v \in versions : v.event_id # id}
             /\ changes' = {c \in changes : c.event_id # id}]_vars

\* C16 happens: the deleted event had versions and changes, and another
\* event still has its versions and changes.
C16_Witness ==
    /\ response.op = "delete_event"
    /\ response.status = 204
    /\ response.ret.versions >= 2
    /\ response.ret.changes >= 1
    /\ \E v \in versions : v.version_number = 2
    /\ changes # {}

\* C17: every stored event has end_datetime > start_datetime.
C17_EndAfterStart ==
    \A id \in DOMAIN events :
        events[id].end_datetime > events[id].start_datetime

\* The items of a listing that belong to one event.
ListedOf(id) ==
    {i \in 1..Len(response.ret) : response.ret[i].id = id}

Listed ==
    /\ response.op = "list_events"
    /\ response.status = 200
    /\ response.args.changed_since = None

\* C18: a master with the rule FREQ=WEEKLY;COUNT=n, listed over a window
\* that contains its whole series, comes back as exactly n occurrences:
\* the k-th starts at master.start + 7k days and ends at master.end + 7k
\* days, k = 0..n-1.
C18_WeeklyCountSeries ==
    Listed =>
        \A id \in DOMAIN events :
            LET m == events[id]
                n == m.recurrence_rule[1].COUNT[1]
                last == m.start_datetime + (n - 1) * Week
            IN (/\ m.creator_id = response.args.current_user
                /\ m.recurrence_rule # None
                /\ m.recurrence_rule[1].FREQ = "WEEKLY"
                /\ m.recurrence_rule[1].COUNT # None
                /\ m.recurrence_end = None \/ last <= m.recurrence_end[1]
                /\ response.args.start_from[1] <= m.start_datetime
                /\ last <= response.args.start_to[1])
               => /\ Cardinality(ListedOf(id)) = n
                  /\ {<<response.ret[i].start_datetime, response.ret[i].end_datetime>> :
                         i \in ListedOf(id)}
                     = {<<m.start_datetime + k * Week, m.end_datetime + k * Week>> :
                         k \in 0..(n - 1)}

\* C19: no occurrence in a listing starts before start_from, after
\* start_to, or after the recurrence_end of its master.
C19_OccurrencesInsideBounds ==
    Listed =>
        \A i \in 1..Len(response.ret) :
            LET occ == response.ret[i]
            IN occ.recurrence_rule # None =>
                  /\ occ.start_datetime >= response.args.start_from[1]
                  /\ occ.start_datetime <= response.args.start_to[1]
                  /\ occ.recurrence_end # None =>
                        occ.start_datetime <= occ.recurrence_end[1]

\* C20: for every window, the occurrences listed for a master (one with no
\* recurrence_end) are exactly the members inside the window of the one
\* series master.start, master.start + period, ..., of at most COUNT
\* members: each once.
C20_AnchoredAtMasterStart ==
    Listed =>
        \A id \in DOMAIN events :
            LET m == events[id]
                text == m.recurrence_rule[1]
                series == {m.start_datetime + k * FreqPeriod[text.FREQ] :
                             k \in {j \in 0..(MaxWeeks + 1) :
                                      text.COUNT = None \/ j < text.COUNT[1]}}
                inside == {x \in series : /\ x >= response.args.start_from[1]
                                          /\ x <= response.args.start_to[1]}
            IN (/\ m.creator_id = response.args.current_user
                /\ m.recurrence_rule # None
                /\ text.FREQ \in DOMAIN FreqPeriod
                /\ m.recurrence_end = None)
               => /\ {response.ret[i].start_datetime : i \in ListedOf(id)} = inside
                  /\ Cardinality(ListedOf(id)) = Cardinality(inside)

\* The masters of a user whose stored rule dateutil cannot parse.
Unparseable(m) ==
    /\ m.recurrence_rule # None
    /\ rrulestr(m.recurrence_rule[1], m.start_datetime) = None

\* C21: a listing over a window answers 200 whatever rules are stored; a
\* master whose rule does not parse contributes no item, every one-off of
\* the user that starts inside the window is listed once, and every other
\* master selected by the query contributes the occurrences of its own rule
\* inside the window.
C21_BadRuleIsSkipped ==
    (response.op = "list_events" /\ response.args.changed_since = None
        /\ response.args.start_from # None /\ response.args.start_to # None)
    => /\ response.status = 200
       /\ \A id \in DOMAIN events :
            LET m == events[id]
                from == response.args.start_from[1]
                to == response.args.start_to[1]
            IN m.creator_id = response.args.current_user =>
                 /\ Unparseable(m) => ListedOf(id) = {}
                 /\ (m.recurrence_rule = None /\ from <= m.start_datetime
                        /\ m.start_datetime <= to)
                    => Cardinality(ListedOf(id)) = 1
                 /\ (/\ m.recurrence_rule # None
                     /\ ~Unparseable(m)
                     /\ m.start_datetime <= to
                     /\ m.recurrence_end = None \/ m.recurrence_end[1] >= from)
                    => LET rule == rrulestr(m.recurrence_rule[1], m.start_datetime)[1]
                           starts == between(rule, from, to)
                       IN /\ Cardinality(ListedOf(id)) = Len(starts)
                          /\ {response.ret[i].start_datetime : i \in ListedOf(id)}
                             = {starts[k] : k \in 1..Len(starts)}

\* A listing that selected a master with an unparseable rule and, after it
\* in primary-key order, a master whose occurrences are listed.
C21_Witness ==
    /\ Listed
    /\ \E bad \in DOMAIN events, good \in DOMAIN events :
         /\ bad < good
         /\ events[bad].creator_id = response.args.current_user
         /\ Unparseable(events[bad])
         /\ events[bad].start_datetime <= response.args.start_to[1]
         /\ \/ events[bad].recurrence_end = None
            \/ events[bad].recurrence_end[1] >= response.args.start_from[1]
         /\ events[good].recurrence_rule # None
         /\ ListedOf(good) # {}

\* C22: the conflicts reported for a candidate interval hold every
\* recurring event of the same owner, other than the excluded one, one of
\* whose later occurrences (master interval moved by k periods, k >= 1,
\* within COUNT and recurrence_end) overlaps the candidate.
C22_LaterOccurrencesConflict ==
    response.op = "detect_event_conflicts" =>
        \A id \in DOMAIN events :
            LET m == events[id]
                a == response.args
                text == m.recurrence_rule[1]
                period == FreqPeriod[text.FREQ]
            IN (/\ m.creator_id = a.user_id
                /\ truthy(a.exclude_event_id) => id # a.exclude_event_id[1]
                /\ m.recurrence_rule # None
                /\ text.FREQ \in DOMAIN FreqPeriod
                /\ \E k \in 1..MaxWeeks :
                      /\ text.COUNT = None \/ k < text.COUNT[1]
                      /\ \/ m.recurrence_end = None
                         \/ m.start_datetime + k * period <= m.recurrence_end[1]
                      /\ overlap(a.start, a.end, m.start_datetime + k * period,
                                 m.end_datetime + k * period))
               => m \in response.ret

\* The fields a snapshot carries, and the owner.
SameContent(a, b) ==
    /\ a.title = b.title
    /\ a.description = b.description
    /\ a.start_datetime = b.start_datetime
    /\ a.end_datetime = b.end_datetime
    /\ a.creator_id = b.creator_id

C28_RollbackFrame ==
    [][\A id \in EventIds, k \in 1..MaxVersions, u \in Users, f \in BOOLEAN :
        rollback_event(id, k, u, f) =>
            /\ DOMAIN events' = DOMAIN events
            /\ \A j \in DOMAIN events :
                 IF j = id
                 THEN /\ events'[j].id = events[j].id
                      /\ events'[j].creator_id = events[j].creator_id
                      /\ events'[j].recurrence_rule = events[j].recurrence_rule
                      /\ events'[j].recurrence_end = events[j].recurrence_end
                 ELSE events'[j] = events[j]]_vars

\* A rollback that gave a recurring event another title than the one of
\* its last version, with a second event in the table.
C28_Witness ==
    /\ response.op = "rollback_event"
    /\ response.status = 200
    /\ Cardinality(DOMAIN events) = 2
    /\ LET id == response.args.event_id
       IN /\ events[id].recurrence_rule # None
          /\ events[id].recurrence_end # None
          /\ response.ret > 1
          /\ get_version_row(versions, id, response.ret - 1)[1].snapshot.title
                # events[id].title

ReadOps == {"list_versions", "get_version", "get_diff", "get_changelog",
            "get_version_as_of"}

\* C24: a step answered by history, version detail, diff, changelog or
\* as-of leaves every Event, EventVersion and EventChange row as it is, and
\* a read repeated with the same arguments gives the same answer.
C24_ReadsChangeNothing ==
    [][response'.op \in ReadOps
        => /\ UNCHANGED Tables
           /\ (response.op = response'.op /\ response.args = response'.args)
              => response' = response]_vars

\* A changelog returned with the changes of an edit in it.
C24_Witness ==
    /\ response.op = "get_changelog"
    /\ response.status = 200
    /\ \E i \in 1..Len(response.ret) : response.ret[i].changes # <<>>

\* The history of an event as list_versions returns it.
history(event_id) == order_by_version_number(VersionsOf(versions, event_id))

\* C25: as-of at the created_at of the (k+1)-th entry of the history
\* answers 200 with the version numbered k, for every k >= 1 for which the
\* history has that entry.
C25_AsOfEntryIsVersionK ==
    response.op = "get_version_as_of" =>
        \A k \in 1..(MaxVersions - 1) :
            LET h == history(response.args.event_id)
            IN (/\ response.args.event_id \in DOMAIN events
                /\ Len(h) >= k + 1
                /\ response.args.at = h[k + 1].created_at)
               => /\ response.status = 200
                  /\ response.ret.version_number = k

\* C26: an event that has EventVersion rows carries, as its version_number,
\* the highest version_number of these rows.
C26_CounterIsLatestVersion ==
    \A id \in DOMAIN events :
        VersionsOf(versions, id) # {} =>
            events[id].version_number = MaxVersionNumber(id)

\* C27: once an event has been rolled back, an update of it by a user who
\* may write it, carrying the version_number the event had just before the
\* last rollback, is answered 409 and changes nothing.
C27_UpdateAfterRollbackIsStale ==
    [][\A id \in EventIds, body \in SharedUpdates, u \in Users :
          (/\ update_event(id, body, u)
           /\ id \in DOMAIN events
           /\ may_write(events[id], u)
           /\ log[id].rollbacks > 0
           /\ body.version_number = log[id].seen)
          => /\ response'.status = 409
             /\ UNCHANGED Tables]_vars

C30_RecordedVersionIsCommitted ==
    /\ (response.op = "create_event" /\ response.status = 201)
       => \E v \in versions : /\ v.event_id = response.ret
                              /\ v.version_number = 1
    /\ (response.op = "update_event" /\ response.status = 200)
       => \E v \in versions : /\ v.event_id = response.args.event_id
                              /\ v.version_number = response.ret.version_number
====
